---- MODULE Spec2Model ----
(***************************************************************************)
(* Model of the ForumPost ingestion driver (db_exp.py, main): it reads the *)
(* ForumPost rows out of SQLite, builds one document per row, cuts it into *)
(* overlapping chunks with chunk_text and upserts the tagged chunks into   *)
(* the index in batches through IndexerClient.add_documents.               *)
(*                                                                         *)
(* Text is a sequence of character codes.  chunk_text and IndexerClient    *)
(* are imported by db_exp.py from modules whose code is not part of the    *)
(* sources at hand; they are modelled from their written contract.         *)
(***************************************************************************)
EXTENDS Integers, Sequences, FiniteSets, TLC

VARIABLES
    cfg,           \* [chunk_size, overlap, batch]: CHUNK_SZ, OVERLAP, BATCH
    db,            \* the SQLite file: [tables, columns, rows]
    pc,            \* where main() stands
    err,           \* "none", the error logged, or the exception that left main()
                   \* (TablesReadError and RowsReadError: sqlite3 failed to read)
    fetched,       \* cur.fetchall() of line 43 has returned
    rows,          \* the local `rows`
    row_i,         \* index of the row the outer for loop is at
    text,          \* the local `text`, the document of the current row
    pos,           \* cursor of the chunk_text generator over `text`
    buffer,        \* the local `buffer`
    total_chunks,  \* the local `total_chunks`
    upserts,       \* the add_documents calls received by the index client
    emitted        \* chunks collected from one chunk_text call (SpecChunk)

vars == <<cfg, db, pc, err, fetched, rows, row_i, text, pos, buffer,
          total_chunks, upserts, emitted>>

----------------------------------------------------------------------------
(* Program constants. *)

CHUNK_SZ == 500
OVERLAP == 50
BATCH == 100
\* the line feed of the "\n\n" that joins title and content
NL == 10

(* Bounds of the model. *)

\* configurations tried by the driver: chunk_size and overlap in 0..MaxChunk
MaxChunk == 3
\* batch sizes tried by the driver: 1..MaxBatch
MaxBatch == 2
\* rows in the ForumPost table: 0..MaxRows
MaxRows == 2
\* characters in a row's content: 0..MaxContent
MaxContent == 1
\* SpecChunk: texts of 0..MaxWindows*chunk_size characters
MaxWindows == 2

----------------------------------------------------------------------------
(* Helpers. *)

Min(a, b) == IF a < b THEN a ELSE b

\* ceil(a / b) for a >= 0, b > 0
CeilDiv(a, b) == (a + b - 1) \div b

RECURSIVE Concat(_)
Concat(ss) == IF ss = <<>> THEN <<>> ELSE Head(ss) \o Concat(Tail(ss))

\* a text of n distinct characters
Letters(n) == [i \in 1..n |-> 96 + i]

\* an optional string: None, or the string given
None == <<>>
Some(s) == <<s>>

----------------------------------------------------------------------------
(* chunk_text: the sliding window chunker. *)

ValidConfig(chunk_size, overlap) ==
    /\ chunk_size > 0
    /\ overlap >= 0
    /\ overlap < chunk_size

ChunkStep(chunk_size, overlap) == chunk_size - overlap

\* the generator goes on while its cursor is inside the text
HasWindow(t, p) == p < Len(t)

\* the window [p, p + chunk_size) clipped to the text
Window(t, p, chunk_size) == SubSeq(t, p + 1, Min(p + chunk_size, Len(t)))

RECURSIVE ChunksFrom(_, _, _, _)
ChunksFrom(t, p, chunk_size, overlap) ==
    IF HasWindow(t, p)
    THEN <<Window(t, p, chunk_size)>>
         \o ChunksFrom(t, p + ChunkStep(chunk_size, overlap), chunk_size, overlap)
    ELSE <<>>

\* list(chunk_text(t, chunk_size, overlap)) of a valid configuration
chunk_text(t, chunk_size, overlap) == ChunksFrom(t, 0, chunk_size, overlap)

----------------------------------------------------------------------------
(* The driver's data. *)

Columns == {"id", "title", "content"}

\* `title or ''`
TitleOrEmpty(title) == IF title = None THEN <<>> ELSE title[1]

\* f"{title or ''}\n\n{content}"
Document(row) == TitleOrEmpty(row.title) \o <<NL, NL>> \o row.content

Titles == {None, Some(<<>>), Some(<<84>>)}
Contents == {Letters(n) : n \in 0..MaxContent}

\* the tables of n rows; a row's id is its position
TablesOf(n) ==
    { [i \in 1..n |-> [id |-> i, title |-> f[i][1], content |-> f[i][2]]] :
        f \in [1..n -> Titles \X Contents] }

Databases ==
    \* the expected schema, with any rows
    { [tables |-> {"ForumPost"}, columns |-> Columns, rows |-> r] :
        r \in UNION { TablesOf(n) : n \in 0..MaxRows } }
    \cup
    \* no ForumPost table, or one without the title column
    { [tables |-> {"Other"}, columns |-> {}, rows |-> <<>>] }
    \cup
    { [tables |-> {"ForumPost"}, columns |-> {"id", "content"}, rows |-> r] :
        r \in TablesOf(1) }

\* The configuration surface (chunk_size, overlap, batch_size) is fixed for a
\* run.  The driver is run under every small configuration, the invalid ones
\* included, so that several batches and several windows per row occur with
\* short texts; SpecChunk below runs the chunker under CHUNK_SZ and OVERLAP.
Configs ==
    [chunk_size : 0..MaxChunk, overlap : 0..MaxChunk, batch : 1..MaxBatch]

Terminated == pc \in {"done", "raised"}

Init ==
    /\ cfg \in Configs
    /\ db \in Databases
    /\ pc = "tables"
    /\ err = "none"
    /\ fetched = FALSE
    /\ rows = <<>>
    /\ row_i = 0
    /\ text = <<>>
    /\ pos = 0
    /\ buffer = <<>>
    /\ total_chunks = 0
    /\ upserts = <<>>
    /\ emitted = <<>>

----------------------------------------------------------------------------
(* The index client. *)

\* IndexerClient.add_documents(docs, collection_name): the client receives
\* the call; ok tells whether it returned or raised
add_documents(docs, ok) ==
    upserts' = Append(upserts, [docs |-> docs, ok |-> ok])

----------------------------------------------------------------------------
(* main(), step by step. *)

\* `if "ForumPost" not in tables`
TableMissing == "ForumPost" \notin db.tables

\* a SELECT that names no column cannot miss one
ColumnsMissing_star == FALSE

\* "SELECT id, title, content FROM ForumPost;" names a column the table lacks
ColumnsMissing == ~(Columns \subseteq db.columns)

\* `if len(buffer) >= BATCH` written with > instead
BufferFull_gt == Len(buffer) > cfg.batch

\* `if len(buffer) >= BATCH`
BufferFull == Len(buffer) >= cfg.batch

\* the final flush without its `if buffer` guard
HasRemainder_always == TRUE

\* `if buffer`
HasRemainder == buffer # <<>>

\* the flush without its buffer.clear()
Cleared_keep(buf) == buf

\* buffer.clear()
Cleared(buf) == <<>>

\* lines 30-39: open the database, list its tables, stop without ForumPost
CheckTables ==
    /\ pc = "tables"
    /\ \E ok \in BOOLEAN :
         IF ~ok
         THEN /\ pc' = "raised"
              /\ err' = "TablesReadError"
         ELSE IF TableMissing
         THEN /\ pc' = "done"
              /\ err' = "SchemaNotFound"
         ELSE /\ pc' = "fetch"
              /\ err' = err
    /\ UNCHANGED <<cfg, db, fetched, rows, row_i, text, pos, buffer,
                   total_chunks, upserts, emitted>>

\* a fetch that keeps the rows read before the failure and goes on
FetchRows_partial ==
    /\ pc = "fetch"
    /\ IF ColumnsMissing
       THEN /\ pc' = "raised"
            /\ err' = "NoSuchColumn"
            /\ UNCHANGED <<fetched, rows, row_i>>
       ELSE \E ok \in BOOLEAN :
            LET got == IF ok \/ db.rows = <<>> THEN db.rows
                       ELSE SubSeq(db.rows, 1, Len(db.rows) - 1)
            IN  /\ rows' = got
                /\ fetched' = TRUE
                /\ row_i' = 1
                /\ err' = err
                /\ pc' = IF got = <<>> THEN "done" ELSE "rows"
    /\ UNCHANGED <<cfg, db, text, pos, buffer, total_chunks, upserts, emitted>>

\* lines 41-52: fetch every ForumPost row, return when there is none
FetchRows ==
    /\ pc = "fetch"
    /\ IF ColumnsMissing
       THEN /\ pc' = "raised"
            /\ err' = "NoSuchColumn"
            /\ UNCHANGED <<fetched, rows, row_i>>
       ELSE \E ok \in BOOLEAN :
            IF ~ok
            THEN /\ pc' = "raised"
                 /\ err' = "RowsReadError"
                 /\ UNCHANGED <<fetched, rows, row_i>>
            ELSE /\ rows' = db.rows
                 /\ fetched' = TRUE
                 /\ row_i' = 1
                 /\ err' = err
                 /\ pc' = IF db.rows = <<>> THEN "done" ELSE "rows"
    /\ UNCHANGED <<cfg, db, text, pos, buffer, total_chunks, upserts, emitted>>

\* a loop head that catches the chunker's error and skips the row
NextRow_swallow ==
    /\ pc = "rows"
    /\ IF row_i > Len(rows)
       THEN /\ pc' = "flush"
            /\ UNCHANGED <<text, pos, row_i>>
       ELSE /\ text' = Document(rows[row_i])
            /\ pos' = 0
            /\ IF ValidConfig(cfg.chunk_size, cfg.overlap)
               THEN pc' = "chunks" /\ row_i' = row_i
               ELSE pc' = "rows" /\ row_i' = row_i + 1
    /\ UNCHANGED <<cfg, db, err, fetched, rows, buffer, total_chunks, upserts,
                   emitted>>

\* lines 54-56: the outer for loop takes the next row, builds its document
\* and calls chunk_text on it
NextRow ==
    /\ pc = "rows"
    /\ IF row_i > Len(rows)
       THEN /\ pc' = "flush"
            /\ UNCHANGED <<text, pos, err>>
       ELSE /\ text' = Document(rows[row_i])
            /\ pos' = 0
            /\ IF ValidConfig(cfg.chunk_size, cfg.overlap)
               THEN pc' = "chunks" /\ err' = err
               ELSE pc' = "raised" /\ err' = "ConfigurationError"
    /\ UNCHANGED <<cfg, db, fetched, rows, row_i, buffer, total_chunks, upserts,
                   emitted>>

\* lines 56-58: the inner for loop takes the generator's next chunk, tags it
\* with the row's id and appends it; an exhausted generator ends the row
NextChunk ==
    /\ pc = "chunks"
    /\ IF HasWindow(text, pos)
       THEN /\ buffer' = Append(buffer,
                   [id |-> rows[row_i].id,
                    text |-> Window(text, pos, cfg.chunk_size)])
            /\ total_chunks' = total_chunks + 1
            /\ pos' = pos + ChunkStep(cfg.chunk_size, cfg.overlap)
            /\ pc' = "check"
            /\ row_i' = row_i
       ELSE /\ row_i' = row_i + 1
            /\ pc' = "rows"
            /\ UNCHANGED <<buffer, total_chunks, pos>>
    /\ UNCHANGED <<cfg, db, err, fetched, rows, text, upserts, emitted>>

\* a flush whose failure is caught: the loop goes on with the buffer kept
CheckFlush_swallow ==
    /\ pc = "check"
    /\ IF BufferFull
       THEN \E ok \in BOOLEAN :
            /\ add_documents(buffer, ok)
            /\ buffer' = IF ok THEN Cleared(buffer) ELSE buffer
            /\ pc' = "chunks"
            /\ err' = err
       ELSE /\ pc' = "chunks"
            /\ UNCHANGED <<buffer, upserts, err>>
    /\ UNCHANGED <<cfg, db, fetched, rows, row_i, text, pos, total_chunks,
                   emitted>>

\* lines 59-61: flush the buffer once it holds BATCH chunks
CheckFlush ==
    /\ pc = "check"
    /\ IF BufferFull
       THEN \E ok \in BOOLEAN :
            /\ add_documents(buffer, ok)
            /\ IF ok
               THEN /\ buffer' = Cleared(buffer)
                    /\ pc' = "chunks"
                    /\ err' = err
               ELSE /\ buffer' = buffer
                    /\ pc' = "raised"
                    /\ err' = "IndexWriteError"
       ELSE /\ pc' = "chunks"
            /\ UNCHANGED <<buffer, upserts, err>>
    /\ UNCHANGED <<cfg, db, fetched, rows, row_i, text, pos, total_chunks,
                   emitted>>

\* lines 63-69: flush the remainder and log the summary
FlushRemainder ==
    /\ pc = "flush"
    /\ IF HasRemainder
       THEN \E ok \in BOOLEAN :
            /\ add_documents(buffer, ok)
            /\ IF ok
               THEN pc' = "done" /\ err' = err
               ELSE pc' = "raised" /\ err' = "IndexWriteError"
       ELSE /\ pc' = "done"
            /\ UNCHANGED <<upserts, err>>
    /\ UNCHANGED <<cfg, db, fetched, rows, row_i, text, pos, buffer,
                   total_chunks, emitted>>

Next ==
    \/ CheckTables
    \/ FetchRows
    \/ NextRow
    \/ NextChunk
    \/ CheckFlush
    \/ FlushRemainder

Spec == Init /\ [][Next]_vars

----------------------------------------------------------------------------
(* chunk_text on its own: list(chunk_text(text, chunk_size, overlap)). *)

\* the program's configuration, and the small valid ones
ChunkConfigs ==
    { c \in [chunk_size : 1..MaxChunk, overlap : 0..MaxChunk, batch : {BATCH}] :
        ValidConfig(c.chunk_size, c.overlap) }
    \cup
    { [chunk_size |-> CHUNK_SZ, overlap |-> OVERLAP, batch |-> BATCH] }

InitChunk ==
    /\ cfg \in ChunkConfigs
    /\ text \in { Letters(n) : n \in 0..(MaxWindows * cfg.chunk_size) }
    /\ pos = 0
    /\ emitted = <<>>
    /\ pc = "listing"
    /\ db = [tables |-> {}, columns |-> {}, rows |-> <<>>]
    /\ err = "none"
    /\ fetched = FALSE
    /\ rows = <<>>
    /\ row_i = 0
    /\ buffer = <<>>
    /\ total_chunks = 0
    /\ upserts = <<>>

\* the generator yields its next window
ListYield ==
    /\ pc = "listing"
    /\ HasWindow(text, pos)
    /\ emitted' = Append(emitted, Window(text, pos, cfg.chunk_size))
    /\ pos' = pos + ChunkStep(cfg.chunk_size, cfg.overlap)
    /\ UNCHANGED <<cfg, db, pc, err, fetched, rows, row_i, text, buffer,
                   total_chunks, upserts>>

\* the generator is exhausted
ListStop ==
    /\ pc = "listing"
    /\ ~HasWindow(text, pos)
    /\ pc' = "listed"
    /\ UNCHANGED <<cfg, db, err, fetched, rows, row_i, text, pos, buffer,
                   total_chunks, upserts, emitted>>

NextChunkOnly ==
    \/ ListYield
    \/ ListStop

SpecChunk == InitChunk /\ [][NextChunkOnly]_vars

----------------------------------------------------------------------------
(* What the claims speak of. *)

Max(a, b) == IF a > b THEN a ELSE b

\* the batches the index client received, in call order
Batches == [i \in 1..Len(upserts) |-> upserts[i].docs]

\* the chunks of one row in chunker order, each tagged with the row's id
RowChunks(row) ==
    LET cs == chunk_text(Document(row), cfg.chunk_size, cfg.overlap)
    IN  [k \in 1..Len(cs) |-> [id |-> row.id, text |-> cs[k]]]

\* the chunks of all rows: rows in source order, chunks in chunker order
ExpectedChunks(rs) == Concat([i \in 1..Len(rs) |-> RowChunks(rs[i])])

\* a row with empty content and an empty or absent title
EmptyRow(row) == row.content = <<>> /\ TitleOrEmpty(row.title) = <<>>

\* the row source lacks the ForumPost table or one of its three columns
SchemaAbsent ==
    \/ "ForumPost" \notin db.tables
    \/ ~({"id", "title", "content"} \subseteq db.columns)

InvalidConfig == ~ValidConfig(cfg.chunk_size, cfg.overlap)

----------------------------------------------------------------------------
(* C1: a run that completes normally with N chunks and batch size B has    *)
(* made exactly ceil(N/B) upsert calls; every call but the last carries B  *)
(* chunks and the last carries N - B*(ceil(N/B) - 1).                      *)
C1_UpsertCountAndSizes ==
    pc = "done" =>
        LET N == total_chunks
            B == cfg.batch
            K == CeilDiv(N, B)
        IN  /\ fetched /\ rows # <<>> => N = Len(ExpectedChunks(rows))
            /\ Len(upserts) = K
            /\ \A i \in 1..Len(upserts) :
                 Len(upserts[i].docs) = IF i < K THEN B ELSE N - B * (K - 1)

\* a completed run of two full batches and a smaller last one
C1_Witness ==
    /\ pc = "done"
    /\ cfg.batch = 2
    /\ total_chunks = 5
    /\ Len(upserts) = 3
    /\ Len(upserts[3].docs) = 1

(* C2: the buffer never holds more than batch_size chunks, and every       *)
(* upsert call carries between 1 and batch_size chunks: no flush is        *)
(* oversized and none is empty, the end-of-stream flush included.          *)
C2_BatchBounds ==
    /\ Len(buffer) <= cfg.batch
    /\ \A i \in 1..Len(upserts) :
         /\ Len(upserts[i].docs) >= 1
         /\ Len(upserts[i].docs) <= cfg.batch

\* a completed run whose chunk count is an exact multiple of the batch
\* size: the end-of-stream flush found the buffer empty
C2_Witness ==
    /\ pc = "done"
    /\ cfg.batch = 2
    /\ total_chunks = 4
    /\ Len(upserts) = 2
    /\ buffer = <<>>

(* C3: on normal completion the batches upserted, concatenated in call     *)
(* order, are the chunks of the rows in source order, each row's chunks in *)
(* chunker order and tagged with the row's id: nothing lost, duplicated or *)
(* reordered.                                                              *)
C3_UpsertedInOrder ==
    (pc = "done" /\ fetched) =>
        IF rows = <<>>
        THEN upserts = <<>>
        ELSE /\ ~InvalidConfig
             /\ \A i \in 1..Len(upserts) : upserts[i].ok
             /\ Concat(Batches) = ExpectedChunks(rows)

\* a completed run of two rows in which one batch holds chunks of both
C3_Witness ==
    /\ pc = "done"
    /\ Len(rows) = 2
    /\ Len(upserts) >= 2
    /\ \E i \in 1..Len(upserts) :
         LET d == upserts[i].docs
         IN  Len(d) = 2 /\ d[1].id = 1 /\ d[2].id = 2

C5_EmptyRowNoChunks ==
    /\ \A k \in 1..Len(buffer) : ~EmptyRow(db.rows[buffer[k].id])
    /\ \A i \in 1..Len(upserts) : \A k \in 1..Len(upserts[i].docs) :
         ~EmptyRow(db.rows[upserts[i].docs[k].id])
    /\ (Len(rows) = 1 /\ EmptyRow(rows[1])) => upserts = <<>>

(* C6: a failed upsert call is not retried and is the last call of the     *)
(* run: the error leaves main(), the batches flushed before it are the     *)
(* only committed ones, and nothing is sent afterwards.                    *)
C6_FailedUpsertIsLast ==
    \A i \in 1..Len(upserts) :
        ~upserts[i].ok =>
            /\ i = Len(upserts)
            /\ pc = "raised"
            /\ err = "IndexWriteError"

\* a run whose second upsert failed while chunks of the row were still to
\* come
C6_Witness ==
    /\ pc = "raised"
    /\ err = "IndexWriteError"
    /\ Len(upserts) = 2
    /\ upserts[1].ok
    /\ ~upserts[2].ok
    /\ HasWindow(text, pos)

C8_ChunkCount ==
    (/\ pc = "listed"
     /\ cfg.chunk_size = CHUNK_SZ
     /\ cfg.overlap = OVERLAP
     /\ text # <<>>) =>
        Len(emitted) =
            CeilDiv(Max(Len(text) - OVERLAP, 1), CHUNK_SZ - OVERLAP)

(* C9: for a valid configuration and a non-empty text shorter than         *)
(* chunk_size the chunker emits exactly one chunk, the whole text.         *)
C9_ShortTextOneChunk ==
    (/\ pc = "listed"
     /\ text # <<>>
     /\ Len(text) < cfg.chunk_size) =>
        emitted = <<text>>

(* C10: nothing is chunked or upserted before the row source has returned  *)
(* the complete row set: a failed fetch ends the run with no chunk and no  *)
(* upsert call, and a fetch of zero rows ends it with no upsert call.      *)
C10_FetchBeforeChunking ==
    /\ ~fetched =>
         /\ rows = <<>>
         /\ text = <<>>
         /\ total_chunks = 0
         /\ buffer = <<>>
         /\ upserts = <<>>
    /\ fetched => rows = db.rows
    /\ err \in {"TablesReadError", "RowsReadError"} => ~fetched /\ pc = "raised"
    /\ (fetched /\ rows = <<>>) => pc = "done" /\ upserts = <<>>

\* a run whose fetch of a non-empty table failed
C10_Witness ==
    /\ pc = "raised"
    /\ err = "RowsReadError"
    /\ db.rows # <<>>
    /\ ~fetched

====
